---------------------------- MODULE Spec2Model ----------------------------
(***************************************************************************)
(* Airport simulation (nelliott82/airport-simulation).                     *)
(*                                                                         *)
(* Two programs are modelled:                                              *)
(*   "single"  src/unnamed/part_000  one runway, optional reprioritization *)
(*   "multi"   src/airport.js        six runways                           *)
(* One step of the model is one call of Simulation.tick(): the spawn draw, *)
(* the forEach scan that advances every airplane, the admission and the    *)
(* reprioritization.  The random source is the step's input.               *)
(***************************************************************************)
EXTENDS Integers, Sequences, FiniteSets

VARIABLES
    program,         \* which source file runs: "single" or "multi"
    control,         \* Simulation.control
    airplanes,       \* Simulation.airplanes, in arrival order
    frameNumber,     \* Simulation.frameNumber
    prev,            \* airplanes as they were when tick() was entered
    scanned,         \* airplanes right after the forEach scan of tick()
    runways,         \* tick() local of airport.js, after the scan
    planeLanding,    \* tick() local, after the scan
    landingPlane,    \* tick() local of part_000 (planeNumber, 0 for {})
    landingPlanes,   \* tick() local of airport.js (planeNumbers)
    lowestAirplane,  \* tick() local (planeNumber, 0 for { fuel: Infinity })
    halts,           \* per plane: frame and beneficiary of its latest halt
    history,         \* per plane: entry frame, drawn fuel, frame first granted
    runNumber,       \* Simulation.runNumber, the driver loop's i
    pc,              \* "running" inside run()'s loop, "done" after run(),
                     \* "exit" after the driver loop
    crashTally,      \* the global crashTally
    printed,         \* number of console.log(crashTally) calls so far
    recorded,        \* number of recordCrashes calls so far
    sums             \* per group, the crash counts of the finished trials

simVars == <<program, control, airplanes, frameNumber, prev, scanned, runways,
             planeLanding, landingPlane, landingPlanes, lowestAirplane, halts,
             history>>

driverVars == <<runNumber, pc, crashTally, printed, recorded, sums>>

vars == <<simVars, driverVars>>

(***************************************************************************)
(* Program constants.                                                      *)
(***************************************************************************)
Runways == 6
InitialAltitude == 80
FuelRate == 1
MinFuel == 100
FuelSpan == 900
SafeLandingFuel == 80
HaltMargin == 81
Horizon == 10000
SingleTotalRuns == 1000
SinglePrintRun == 100
MaxRuns == 10000

(***************************************************************************)
(* Bounds of the model and the input draws that are enumerated.            *)
(***************************************************************************)
MaxPlanes == 3
MaxFrame == 162
RunwayMaxPlanes == 7
RunwaySpawnWindow == 7
RunwayMaxFrame == 88
TrialMaxPlanes == 2
TrialSpawnWindow == 2
DriverMaxCrashes == 2

\* Math.floor(Math.random() * 900) + 100 ranges over 100..999
FuelRange == MinFuel .. (MinFuel + FuelSpan - 1)

FuelDraws == {100, 200, 300}
SpawnFrames == {1, 2, 41, 62, 81, 83}
RunwayFuelDraws == {100, 300}
TrialFuelDraws == {100}

(***************************************************************************)
(* Airplane                                                                *)
(***************************************************************************)
NewAirplane(planeNumber, fuel) ==
    [planeNumber |-> planeNumber, fuel |-> fuel, crashed |-> FALSE,
     altitude |-> InitialAltitude, landing |-> FALSE, landed |-> FALSE]

\* a touchdown test that fires one unit of altitude too soon
HandleLandingEarly(a) ==
    LET b == [a EXCEPT !.altitude = a.altitude - FuelRate]
    IN  IF b.altitude <= 1
        THEN [b EXCEPT !.landing = FALSE, !.landed = TRUE]
        ELSE b

HandleLanding(a) ==
    LET b == [a EXCEPT !.altitude = a.altitude - FuelRate]
    IN  IF b.altitude = 0
        THEN [b EXCEPT !.landing = FALSE, !.landed = TRUE]
        ELSE b

\* a crash test with < in place of <=
HandleCrashLate(a) ==
    IF a.fuel < 0 THEN [a EXCEPT !.crashed = TRUE] ELSE a

HandleCrash(a) ==
    IF a.fuel <= 0 THEN [a EXCEPT !.crashed = TRUE] ELSE a

\* a tick() that lacks the crashed test
AirplaneTickIgnoringCrash(a) ==
    LET b == [a EXCEPT !.fuel = a.fuel - FuelRate]
    IN  IF b.landing THEN HandleLanding(b) ELSE HandleCrash(b)

\* a tick() in which a plane that is not descending burns no fuel
AirplaneTickIdle(a) ==
    IF ~a.crashed
    THEN IF a.landing
         THEN HandleLanding([a EXCEPT !.fuel = a.fuel - FuelRate])
         ELSE HandleCrash(a)
    ELSE a

\* a tick() in which a descending plane burns no fuel
AirplaneTickGlide(a) ==
    IF ~a.crashed
    THEN IF a.landing
         THEN HandleLanding(a)
         ELSE HandleCrash([a EXCEPT !.fuel = a.fuel - FuelRate])
    ELSE a

AirplaneTick(a) ==
    IF ~a.crashed
    THEN LET b == [a EXCEPT !.fuel = a.fuel - FuelRate]
         IN  IF b.landing THEN HandleLanding(b) ELSE HandleCrash(b)
    ELSE a

(***************************************************************************)
(* Simulation.generateAirplane: spawn is the 1-in-100 draw, fuel the fuel  *)
(* draw of the Airplane constructor.                                       *)
(***************************************************************************)
GenerateAirplane(planes, spawn, fuel) ==
    IF spawn THEN Append(planes, NewAirplane(Len(planes) + 1, fuel))
    ELSE planes

\* lowestAirplane.fuel, where 0 stands for the sentinel { fuel: Infinity }
BelowLowest(planes, a, lowest) ==
    lowest = 0 \/ a.fuel < planes[lowest].fuel

(***************************************************************************)
(* part_000: the forEach body of tick() and its fold over the collection.  *)
(***************************************************************************)
\* a forEach body whose candidate test lacks fuel >= 80
ScanStepSingleAnyFuel(acc, i) ==
    LET a0 == acc.planes[i]
        a  == IF ~a0.landed THEN AirplaneTick(a0) ELSE a0
        ps == [acc.planes EXCEPT ![i] = a]
        lp == IF a.landing THEN i ELSE acc.landingPlane
        pl == IF a.landing THEN TRUE ELSE acc.planeLanding
        lo == IF /\ BelowLowest(ps, a, acc.lowestAirplane)
                 /\ ~a.landed
              THEN i ELSE acc.lowestAirplane
    IN  [planes |-> ps, planeLanding |-> pl, landingPlane |-> lp,
         lowestAirplane |-> lo]

ScanStepSingle(acc, i) ==
    LET a0 == acc.planes[i]
        a  == IF ~a0.landed THEN AirplaneTick(a0) ELSE a0
        ps == [acc.planes EXCEPT ![i] = a]
        lp == IF a.landing THEN i ELSE acc.landingPlane
        pl == IF a.landing THEN TRUE ELSE acc.planeLanding
        lo == IF /\ BelowLowest(ps, a, acc.lowestAirplane)
                 /\ a.fuel >= SafeLandingFuel
                 /\ ~a.landed
              THEN i ELSE acc.lowestAirplane
    IN  [planes |-> ps, planeLanding |-> pl, landingPlane |-> lp,
         lowestAirplane |-> lo]

RECURSIVE ScanSingleFrom(_, _)
ScanSingleFrom(acc, i) ==
    IF i > Len(acc.planes) THEN acc
    ELSE ScanSingleFrom(ScanStepSingle(acc, i), i + 1)

ScanSingle(planes) ==
    ScanSingleFrom([planes |-> planes, planeLanding |-> FALSE,
                    landingPlane |-> 0, lowestAirplane |-> 0], 1)

StartPlaneLandingSingle(planes, pl, lowest) ==
    IF ~pl /\ Len(planes) # 0 /\ lowest # 0
    THEN [planes EXCEPT ![lowest].landing = TRUE]
    ELSE planes

\* the condition without the fuel margin of the landing plane
ShouldHaltSingleNoMargin(planes, lowest, lp) ==
    /\ lowest # 0
    /\ planes[lowest].fuel < planes[lp].fuel

\* the condition of prioritizeLandingOtherPlane (Infinity < x is false)
ShouldHaltSingle(planes, lowest, lp) ==
    /\ lowest # 0
    /\ planes[lowest].fuel < planes[lp].fuel
    /\ planes[lp].fuel >= HaltMargin + planes[lp].altitude

\* a reprioritization that starts the other landing without halting this one
PrioritizeWithoutHalting(planes, lowest, lp) ==
    IF lowest # 0
       /\ planes[lowest].fuel < planes[lp].fuel
       /\ planes[lp].fuel >= HaltMargin + planes[lp].altitude
    THEN [planes EXCEPT ![lowest].landing = TRUE]
    ELSE planes

\* a reprioritization that sends the halted plane back to its initial altitude
PrioritizeResettingAltitude(planes, lowest, lp) ==
    IF lowest # 0
       /\ planes[lowest].fuel < planes[lp].fuel
       /\ planes[lp].fuel >= HaltMargin + planes[lp].altitude
    THEN [[planes EXCEPT ![lp].landing = FALSE,
                         ![lp].altitude = InitialAltitude]
             EXCEPT ![lowest].landing = TRUE]
    ELSE planes

PrioritizeLandingOtherPlaneSingle(planes, lowest, lp) ==
    IF ShouldHaltSingle(planes, lowest, lp)
    THEN [[planes EXCEPT ![lp].landing = FALSE] EXCEPT ![lowest].landing = TRUE]
    ELSE planes

\* the gate without the policy flag
PreemptionGateAnyPolicy(lp, ctl) == lp # 0

\* the gate with the policy flag the wrong way round
PreemptionGateInverted(lp, ctl) == lp # 0 /\ ctl

\* tick(): if (landingPlane.planeNumber && !this.control)
PreemptionGate(lp, ctl) == lp # 0 /\ ~ctl

\* the halt log line of prioritizeLandingOtherPlane, kept per plane
RecordHalts(h, before, after, lowest, frame) ==
    [i \in 1..Len(after) |->
        IF i <= Len(before) /\ before[i].landing /\ ~after[i].landing
        THEN [at |-> frame, by |-> lowest]
        ELSE IF i <= Len(h) THEN h[i] ELSE [at |-> 0, by |-> 0]]

\* the entry and first-landing log lines of generateAirplane and
\* startPlaneLanding / prioritizeLandingOtherPlane, kept per plane
RecordHistory(h, after, fuel, frame) ==
    [i \in 1..Len(after) |->
        IF i > Len(h)
        THEN [entered |-> frame, fuel |-> fuel,
              granted |-> IF after[i].landing THEN frame ELSE 0]
        ELSE IF h[i].granted = 0 /\ after[i].landing
             THEN [h[i] EXCEPT !.granted = frame]
             ELSE h[i]]

\* a loop test that lets frame 10000 tick once more
LoopGuardInclusive(f) == f <= Horizon

\* run(): while (this.frameNumber < 10000)
LoopGuard(f) == f < Horizon

TickSingle(spawn, fuel) ==
    /\ program = "single"
    /\ pc = "running"
    /\ LoopGuard(frameNumber)
    /\ LET gen   == GenerateAirplane(airplanes, spawn, fuel)
           s     == ScanSingle(gen)
           start == StartPlaneLandingSingle(s.planes, s.planeLanding,
                                            s.lowestAirplane)
           final == IF PreemptionGate(s.landingPlane, control)
                    THEN PrioritizeLandingOtherPlaneSingle(
                             start, s.lowestAirplane, s.landingPlane)
                    ELSE start
       IN  /\ frameNumber' = frameNumber + 1
           /\ prev' = airplanes
           /\ scanned' = s.planes
           /\ planeLanding' = s.planeLanding
           /\ landingPlane' = s.landingPlane
           /\ lowestAirplane' = s.lowestAirplane
           /\ airplanes' = final
           /\ halts' = RecordHalts(halts, start, final, s.lowestAirplane,
                                   frameNumber + 1)
           /\ history' = RecordHistory(history, final, fuel, frameNumber + 1)
    /\ UNCHANGED <<program, control, runways, landingPlanes>>
    /\ UNCHANGED driverVars

(***************************************************************************)
(* airport.js: the forEach body of tick() and its fold.                    *)
(***************************************************************************)
\* a forEach body whose candidate test lacks fuel >= altitude
ScanStepMultiAnyFuel(acc, i, ctl) ==
    LET a0 == acc.planes[i]
    IN  IF a0.landed THEN acc
        ELSE
          LET a  == AirplaneTick(a0)
              ps == [acc.planes EXCEPT ![i] = a]
          IN  IF a.landing
              THEN [acc EXCEPT
                      !.planes = ps,
                      !.runways = IF ~ctl THEN acc.runways - 1
                                  ELSE acc.runways,
                      !.landingPlanes = Append(acc.landingPlanes, i),
                      !.planeLanding = TRUE]
              ELSE IF BelowLowest(ps, a, acc.lowestAirplane)
                   THEN [acc EXCEPT !.planes = ps, !.lowestAirplane = i]
                   ELSE [acc EXCEPT !.planes = ps]

ScanStepMulti(acc, i, ctl) ==
    LET a0 == acc.planes[i]
    IN  IF a0.landed THEN acc
        ELSE
          LET a  == AirplaneTick(a0)
              ps == [acc.planes EXCEPT ![i] = a]
          IN  IF a.landing
              THEN [acc EXCEPT
                      !.planes = ps,
                      !.runways = IF ~ctl THEN acc.runways - 1
                                  ELSE acc.runways,
                      !.landingPlanes = Append(acc.landingPlanes, i),
                      !.planeLanding = TRUE]
              ELSE IF /\ BelowLowest(ps, a, acc.lowestAirplane)
                      /\ a.fuel >= a.altitude
                   THEN [acc EXCEPT !.planes = ps, !.lowestAirplane = i]
                   ELSE [acc EXCEPT !.planes = ps]

RECURSIVE ScanMultiFrom(_, _, _)
ScanMultiFrom(acc, i, ctl) ==
    IF i > Len(acc.planes) THEN acc
    ELSE ScanMultiFrom(ScanStepMulti(acc, i, ctl), i + 1, ctl)

ScanMulti(planes, ctl) ==
    ScanMultiFrom([planes |-> planes, runways |-> Runways,
                   planeLanding |-> FALSE, landingPlanes |-> <<>>,
                   lowestAirplane |-> 0], 1, ctl)

StartPlaneLandingMulti(planes, lowest) ==
    IF Len(planes) # 0 /\ lowest # 0
    THEN [planes EXCEPT ![lowest].landing = TRUE]
    ELSE planes

\* the loop of prioritizeLandingOtherPlane; m = 0 is { fuel: -Infinity },
\* and -Infinity > x is false
RECURSIVE MostFueledFrom(_, _, _, _)
MostFueledFrom(planes, lps, i, m) ==
    IF i > Len(lps) THEN m
    ELSE IF m # 0 /\ planes[m].fuel > planes[lps[i]].fuel
         THEN MostFueledFrom(planes, lps, i + 1, lps[i])
         ELSE MostFueledFrom(planes, lps, i + 1, m)

MostFueledPlane(planes, lps) == MostFueledFrom(planes, lps, 1, 0)

\* x < -Infinity and Infinity < x are false
ShouldHaltMulti(planes, lowest, m) ==
    /\ lowest # 0
    /\ m # 0
    /\ planes[lowest].fuel < planes[m].fuel
    /\ planes[m].fuel >= HaltMargin + planes[m].altitude

PrioritizeLandingOtherPlaneMulti(planes, lowest, lps) ==
    LET m == MostFueledPlane(planes, lps)
    IN  IF ShouldHaltMulti(planes, lowest, m)
        THEN [[planes EXCEPT ![m].landing = FALSE]
                 EXCEPT ![lowest].landing = TRUE]
        ELSE planes

TickMulti(spawn, fuel) ==
    /\ program = "multi"
    /\ pc = "running"
    /\ LoopGuard(frameNumber)
    /\ LET gen   == GenerateAirplane(airplanes, spawn, fuel)
           s     == ScanMulti(gen, control)
           final == IF control
                    THEN IF ~s.planeLanding
                         THEN StartPlaneLandingMulti(s.planes, s.lowestAirplane)
                         ELSE s.planes
                    ELSE IF s.runways # 0
                         THEN StartPlaneLandingMulti(s.planes, s.lowestAirplane)
                         ELSE PrioritizeLandingOtherPlaneMulti(
                                  s.planes, s.lowestAirplane, s.landingPlanes)
       IN  /\ frameNumber' = frameNumber + 1
           /\ prev' = airplanes
           /\ scanned' = s.planes
           /\ runways' = s.runways
           /\ planeLanding' = s.planeLanding
           /\ landingPlanes' = s.landingPlanes
           /\ lowestAirplane' = s.lowestAirplane
           /\ airplanes' = final
           /\ halts' = RecordHalts(halts, s.planes, final, s.lowestAirplane,
                                   frameNumber + 1)
           /\ history' = RecordHistory(history, final, fuel, frameNumber + 1)
    /\ UNCHANGED <<program, control, landingPlane>>
    /\ UNCHANGED driverVars

(***************************************************************************)
(* Construction and the specifications.                                    *)
(***************************************************************************)
\* new Simulation(runNumber, control), before the first tick
Constructed ==
    /\ airplanes = <<>>
    /\ frameNumber = 0
    /\ prev = <<>>
    /\ scanned = <<>>
    /\ runways = Runways
    /\ planeLanding = FALSE
    /\ landingPlane = 0
    /\ landingPlanes = <<>>
    /\ lowestAirplane = 0
    /\ halts = <<>>
    /\ history = <<>>

\* the driver at the start of trial i when no earlier trial had a crash
\* (run 100 of part_000 has printed by then)
DriverAt(i) ==
    /\ runNumber = i
    /\ pc = "running"
    /\ crashTally = [controls |-> 0, tests |-> 0]
    /\ printed = IF program = "single" /\ i > SinglePrintRun THEN 1 ELSE 0
    /\ recorded = i - 1
    /\ sums = [controls |-> 0, tests |-> 0]

\* the draws offered to the next tick: no spawn, or a spawn with a fuel
Draws(frames, fuels, maxPlanes) ==
    {[spawn |-> FALSE, fuel |-> MinFuel]} \cup
    IF (frameNumber + 1) \in frames /\ Len(airplanes) < maxPlanes
    THEN {[spawn |-> TRUE, fuel |-> f] : f \in fuels \cap FuelRange}
    ELSE {}

Init ==
    /\ program \in {"single", "multi"}
    /\ control \in BOOLEAN
    /\ Constructed
    /\ DriverAt(IF control THEN 2 ELSE 1)

StepSingle ==
    /\ frameNumber < MaxFrame
    /\ \E d \in Draws(SpawnFrames, FuelDraws, MaxPlanes) :
           TickSingle(d.spawn, d.fuel)

StepMulti ==
    /\ frameNumber < MaxFrame
    /\ \E d \in Draws(SpawnFrames, FuelDraws, MaxPlanes) :
           TickMulti(d.spawn, d.fuel)

Next == StepSingle \/ StepMulti

Spec == Init /\ [][Next]_vars

\* airport.js under the test policy with enough arrivals to fill 6 runways
InitRunways ==
    /\ program = "multi"
    /\ control = FALSE
    /\ Constructed
    /\ DriverAt(1)

NextRunways ==
    /\ frameNumber < RunwayMaxFrame
    /\ \E d \in Draws(1..RunwaySpawnWindow, RunwayFuelDraws, RunwayMaxPlanes) :
           TickMulti(d.spawn, d.fuel)

SpecRunways == InitRunways /\ [][NextRunways]_vars

(***************************************************************************)
(* The end of run() and the driver loop.                                   *)
(***************************************************************************)
\* recordCrashes: the forEach that counts the crashed airplanes
RECURSIVE CountCrashedFrom(_, _, _)
CountCrashedFrom(planes, i, crashed) ==
    IF i > Len(planes) THEN crashed
    ELSE CountCrashedFrom(planes, i + 1,
                          IF planes[i].crashed THEN crashed + 1 ELSE crashed)

\* a recordCrashes that books the count on the other group's counter
RecordCrashesSwapped(ctl, planes, tally) ==
    LET crashed == CountCrashedFrom(planes, 1, 0)
    IN  IF ctl
        THEN [tally EXCEPT !.tests = tally.tests + crashed]
        ELSE [tally EXCEPT !.controls = tally.controls + crashed]

RecordCrashes(ctl, planes, tally) ==
    LET crashed == CountCrashedFrom(planes, 1, 0)
    IN  IF ctl
        THEN [tally EXCEPT !.controls = tally.controls + crashed]
        ELSE [tally EXCEPT !.tests = tally.tests + crashed]

\* the run whose end prints the tally: 100 in part_000, maxRuns in airport.js
PrintRun == IF program = "single" THEN SinglePrintRun ELSE MaxRuns

\* the number of trials the driver loop constructs
TotalRuns == IF program = "single" THEN SingleTotalRuns ELSE MaxRuns

\* run() after its loop: recordCrashes, then the conditional console.log
FinishRun ==
    /\ pc = "running"
    /\ ~LoopGuard(frameNumber)
    /\ crashTally' = RecordCrashes(control, airplanes, crashTally)
    /\ printed' = IF runNumber = PrintRun THEN printed + 1 ELSE printed
    /\ recorded' = recorded + 1
    /\ sums' = LET n == Cardinality({i \in DOMAIN airplanes :
                                         airplanes[i].crashed})
               IN  IF control
                   THEN [sums EXCEPT !.controls = sums.controls + n]
                   ELSE [sums EXCEPT !.tests = sums.tests + n]
    /\ pc' = "done"
    /\ UNCHANGED <<simVars, runNumber>>

\* one trial at frame granularity, for either program and either group
InitTrial ==
    /\ program \in {"single", "multi"}
    /\ runNumber \in {1, 2}
    /\ control = (runNumber % 2 = 0)
    /\ Constructed
    /\ DriverAt(runNumber)

StepTrialSingle ==
    \E d \in Draws(1..TrialSpawnWindow, TrialFuelDraws, TrialMaxPlanes) :
        TickSingle(d.spawn, d.fuel)

StepTrialMulti ==
    \E d \in Draws(1..TrialSpawnWindow, TrialFuelDraws, TrialMaxPlanes) :
        TickMulti(d.spawn, d.fuel)

NextTrial == StepTrialSingle \/ StepTrialMulti \/ FinishRun

SpecTrial == InitTrial /\ [][NextTrial]_vars

(***************************************************************************)
(* The driver loop over all trials.  The while loop of run() is taken as   *)
(* one step here: it leaves frameNumber at the horizon and some collection *)
(* of airplanes, of which recordCrashes reads only the crashed flags.      *)
(***************************************************************************)
CrashedPlane(n) ==
    [NewAirplane(n, MinFuel) EXCEPT !.fuel = 0, !.crashed = TRUE]

LandedPlane(n) ==
    [NewAirplane(n, MinFuel) EXCEPT !.fuel = MinFuel - InitialAltitude - 1,
                                    !.altitude = 0, !.landed = TRUE]

\* collections a trial can end with: 0, 0, 1, 1 and 2 crashed airplanes
TrialOutcomes ==
    {<<>>,
     <<LandedPlane(1)>>,
     <<CrashedPlane(1)>>,
     <<LandedPlane(1), CrashedPlane(2)>>,
     <<CrashedPlane(1), CrashedPlane(2)>>}

RunToHorizon ==
    /\ pc = "running"
    /\ LoopGuard(frameNumber)
    /\ frameNumber' = Horizon
    /\ \E planes \in TrialOutcomes :
           /\ CountCrashedFrom(planes, 1, 0)
                  + crashTally.controls + crashTally.tests <= DriverMaxCrashes
           /\ airplanes' = planes
    /\ UNCHANGED <<program, control, prev, scanned, runways, planeLanding,
                   landingPlane, landingPlanes, lowestAirplane, halts,
                   history, driverVars>>

\* for (let i = 1; i <= TotalRuns; i++): the next new Simulation(i, i % 2 === 0)
NextRun ==
    /\ pc = "done"
    /\ runNumber + 1 <= TotalRuns
    /\ runNumber' = runNumber + 1
    /\ control' = ((runNumber + 1) % 2 = 0)
    /\ airplanes' = <<>>
    /\ frameNumber' = 0
    /\ prev' = <<>>
    /\ scanned' = <<>>
    /\ runways' = Runways
    /\ planeLanding' = FALSE
    /\ landingPlane' = 0
    /\ landingPlanes' = <<>>
    /\ lowestAirplane' = 0
    /\ halts' = <<>>
    /\ history' = <<>>
    /\ pc' = "running"
    /\ UNCHANGED <<program, crashTally, printed, recorded, sums>>

\* the loop test fails after the last trial
ExitDriver ==
    /\ pc = "done"
    /\ ~(runNumber + 1 <= TotalRuns)
    /\ pc' = "exit"
    /\ UNCHANGED <<simVars, runNumber, crashTally, printed, recorded, sums>>

InitDriver ==
    /\ program \in {"single", "multi"}
    /\ control = FALSE
    /\ Constructed
    /\ DriverAt(1)

NextDriver == RunToHorizon \/ FinishRun \/ NextRun \/ ExitDriver

SpecDriver == InitDriver /\ [][NextDriver]_vars

(***************************************************************************)
(* Vocabulary of the properties.  A frame is one tick(): prev is the       *)
(* collection at the end of the previous frame, scanned the collection     *)
(* after this frame's advance step, airplanes the end of this frame.       *)
(***************************************************************************)
Landing == {i \in DOMAIN airplanes : airplanes[i].landing}

\* landing went from true to false in this frame without a touchdown
Halted ==
    {i \in DOMAIN prev :
        prev[i].landing /\ ~airplanes[i].landing /\ ~airplanes[i].landed}

\* the landing flag was set by this frame's admission or reprioritization
Admitted ==
    {i \in DOMAIN airplanes : airplanes[i].landing /\ ~scanned[i].landing}

Waiting(i) ==
    /\ i \in DOMAIN scanned
    /\ ~scanned[i].landing /\ ~scanned[i].landed /\ ~scanned[i].crashed

FirstLowest(S, q) ==
    /\ q \in S
    /\ \A r \in S \ {q} :
          \/ scanned[q].fuel < scanned[r].fuel
          \/ scanned[q].fuel = scanned[r].fuel /\ q < r

FirstHighest(S, m) ==
    /\ m \in S
    /\ \A r \in S \ {m} :
          \/ scanned[m].fuel > scanned[r].fuel
          \/ scanned[m].fuel = scanned[r].fuel /\ m < r

WaitingPlanes == {i \in DOMAIN scanned : Waiting(i)}

\* waiting planes with enough fuel for the remaining descent
Candidates == {i \in WaitingPlanes : scanned[i].fuel >= scanned[i].altitude}

LandingAfterScan == {i \in DOMAIN scanned : scanned[i].landing /\ ~scanned[i].landed}

(***************************************************************************)
(* C1: airport.js under the test policy: at the end of every frame at most *)
(* 6 airplanes of the collection have landing = true.                      *)
(***************************************************************************)
C1_AtMostSixLanding ==
    (program = "multi" /\ ~control) => Cardinality(Landing) <= 6

(***************************************************************************)
(* C2: part_000 under either policy: at the end of every frame at most one *)
(* airplane has landing = true; a frame that halts a landing ends with     *)
(* exactly one flag on, and not on the halted plane.                       *)
(***************************************************************************)
C2_AtMostOneLanding ==
    program = "single" =>
        /\ Cardinality(Landing) <= 1
        /\ Halted # {} => (Cardinality(Landing) = 1 /\ Landing \cap Halted = {})

C2_Witness ==
    /\ program = "single"
    /\ Halted # {}
    /\ Cardinality(Landing) = 1
    /\ Cardinality(DOMAIN airplanes) >= 2

(***************************************************************************)
(* C3: in both programs and under both policies, at the end of every frame *)
(* an airplane with landing = true is neither landed nor crashed.          *)
(***************************************************************************)
C3_LandingNotTerminal ==
    \A i \in DOMAIN airplanes :
        airplanes[i].landing => (~airplanes[i].landed /\ ~airplanes[i].crashed)

(***************************************************************************)
(* C4: an airplane that is landed or crashed at the end of a frame has the *)
(* same fuel, altitude, landing, landed and crashed at the end of the next *)
(* frame (hence of every later one), and no airplane is both landed and    *)
(* crashed.                                                                *)
(***************************************************************************)
C4_TerminalFrozen ==
    /\ \A i \in DOMAIN prev :
          (prev[i].landed \/ prev[i].crashed) => airplanes[i] = prev[i]
    /\ \A i \in DOMAIN airplanes :
          ~(airplanes[i].landed /\ airplanes[i].crashed)

C4_Witness ==
    /\ \E i \in DOMAIN prev : prev[i].crashed /\ airplanes[i].fuel = 0
    /\ \E i \in DOMAIN prev : prev[i].landed
    /\ \E i \in DOMAIN prev : prev[i].landing /\ ~prev[i].landed
                                /\ airplanes[i].altitude < prev[i].altitude

(***************************************************************************)
(* C5: whenever a landing is halted in a frame, the policy is test, no     *)
(* runway slot was free for admission, the halted plane's fuel is at least *)
(* 81 + its altitude, and exactly one plane's flag is turned on, a plane   *)
(* with strictly less fuel than the halted one.                            *)
(***************************************************************************)
NoSlotFree ==
    IF program = "single" THEN planeLanding ELSE runways = 0

C5_HaltGuard ==
    \A p \in Halted :
        /\ ~control
        /\ NoSlotFree
        /\ scanned[p].fuel >= 81 + scanned[p].altitude
        /\ \E q \in Admitted :
              /\ Admitted = {q}
              /\ q # p
              /\ airplanes[q].fuel < airplanes[p].fuel

C5_Witness ==
    \E p \in Halted :
        /\ ~control
        /\ scanned[p].altitude < 79
        /\ \E q \in Admitted : airplanes[q].fuel < airplanes[p].fuel

(***************************************************************************)
(* C6: part_000, test policy.  As claimed: if P was landing at the start   *)
(* of the frame and has post-tick fuel >= 81 + altitude, and the waiting   *)
(* plane Q with the lowest fuel (first in arrival order on a tie) has      *)
(* strictly less post-tick fuel than P, the frame ends with P.landing      *)
(* false and Q.landing true.                                               *)
(***************************************************************************)
C6_Premise(p, q) ==
    /\ program = "single" /\ ~control
    /\ p \in DOMAIN prev /\ prev[p].landing
    /\ scanned[p].fuel >= 81 + scanned[p].altitude
    /\ FirstLowest(WaitingPlanes, q)
    /\ scanned[q].fuel < scanned[p].fuel

C6_Original ==
    \A p, q \in DOMAIN scanned :
        C6_Premise(p, q) => (~airplanes[p].landing /\ airplanes[q].landing)

(***************************************************************************)
(* C6 as amended: the same, for a waiting plane Q whose post-tick fuel is  *)
(* at least 80 (the fuel the scan requires of a plane it may start         *)
(* landing).                                                               *)
(***************************************************************************)
C6_Amended ==
    \A p, q \in DOMAIN scanned :
        (C6_Premise(p, q) /\ scanned[q].fuel >= 80)
            => (~airplanes[p].landing /\ airplanes[q].landing)

C6_Witness ==
    \E p, q \in DOMAIN scanned :
        /\ C6_Premise(p, q)
        /\ scanned[q].fuel >= 80
        /\ scanned[p].landing
        /\ ~airplanes[p].landing /\ airplanes[q].landing

(***************************************************************************)
(* C7: airport.js, test policy: when all 6 runways are occupied after the  *)
(* scan, and the landing plane with the highest fuel (first in scan order  *)
(* on a tie) has fuel >= 81 + altitude, and the best waiting candidate has *)
(* strictly less fuel, then that plane's landing becomes false and the     *)
(* candidate's becomes true in that frame.                                 *)
(***************************************************************************)
C7_MostFueledHalted ==
    (program = "multi" /\ ~control /\ Cardinality(LandingAfterScan) = 6) =>
        \A m, q \in DOMAIN scanned :
            ( /\ FirstHighest(LandingAfterScan, m)
              /\ scanned[m].fuel >= 81 + scanned[m].altitude
              /\ FirstLowest(Candidates, q)
              /\ scanned[q].fuel < scanned[m].fuel )
            => (~airplanes[m].landing /\ airplanes[q].landing)

(***************************************************************************)
(* C8: part_000: a plane P halted in favour of Q can wait out Q's landing: *)
(* in the frame Q touches down, 80 frames after the halt and without       *)
(* having been halted itself, P is still an eligible candidate (not        *)
(* landed, not crashed, fuel >= 80 as the scan requires); and a halted     *)
(* plane that is landing again has the fuel to finish and is not crashed.  *)
(***************************************************************************)
C8_HaltedCanLandAgain ==
    program = "single" =>
        \A p \in DOMAIN halts :
            halts[p].at > 0 =>
                LET q == halts[p].by
                IN  /\ ( /\ airplanes[q].landed /\ ~prev[q].landed
                         /\ frameNumber = halts[p].at + 80
                         /\ halts[q].at < halts[p].at )
                       => ( /\ ~scanned[p].landed /\ ~scanned[p].crashed
                            /\ scanned[p].fuel >= 80 )
                    /\ airplanes[p].landing
                       => ( /\ airplanes[p].fuel >= airplanes[p].altitude
                            /\ ~airplanes[p].crashed )

(***************************************************************************)
(* C9: in every frame at most one landing is halted; the halted plane's    *)
(* altitude at the end of the frame is its altitude after the advance      *)
(* step; and an airplane's altitude changes over a frame only if it was    *)
(* landing, and then by exactly one.                                       *)
(***************************************************************************)
C9_OneHaltAltitudeKept ==
    /\ Cardinality(Halted) <= 1
    /\ \A p \in Halted :
          /\ airplanes[p].altitude = scanned[p].altitude
          /\ airplanes[p].altitude = prev[p].altitude - 1
    /\ \A i \in DOMAIN prev :
          airplanes[i].altitude # prev[i].altitude
              => (prev[i].landing /\ airplanes[i].altitude = prev[i].altitude - 1)

C9_Witness ==
    \E p \in Halted :
        /\ airplanes[p].altitude < 79
        /\ airplanes[p].altitude = scanned[p].altitude

(***************************************************************************)
(* C10: airport.js, test policy: in a frame in which fewer than 6 planes   *)
(* are landing after the scan and some waiting plane has fuel >= altitude, *)
(* the plane whose landing flag is set is the waiting plane of minimum     *)
(* fuel among those, the first in arrival order on a tie.                  *)
(***************************************************************************)
C10_AdmitsLowestWaiting ==
    (program = "multi" /\ ~control /\ Cardinality(LandingAfterScan) < 6) =>
        \A q \in DOMAIN scanned :
            FirstLowest(Candidates, q) => Admitted = {q}

(***************************************************************************)
(* C11: a plane that was never granted landing is crashed at the end of    *)
(* exactly the frame whose tick brings its fuel to 0 (its entry frame plus *)
(* its drawn fuel minus 1): before that frame it is not crashed and has    *)
(* fuel > 0, from that frame on it is crashed with fuel 0.                 *)
(***************************************************************************)
C11_CrashesWhenFuelReachesZero ==
    \A i \in DOMAIN airplanes :
        history[i].granted = 0 =>
            LET dry == history[i].entered + history[i].fuel - 1
            IN  /\ airplanes[i].crashed <=> frameNumber >= dry
                /\ frameNumber < dry =>
                      airplanes[i].fuel = dry - frameNumber
                /\ frameNumber >= dry => airplanes[i].fuel = 0

C11_Witness ==
    \E i \in DOMAIN prev :
        /\ history[i].granted = 0
        /\ ~prev[i].crashed /\ prev[i].fuel = 1
        /\ airplanes[i].crashed /\ airplanes[i].fuel = 0

(***************************************************************************)
(* C12: a plane granted landing (from altitude 80) and never halted is     *)
(* landed from exactly the 80th frame after the frame that set its landing *)
(* flag, not before, and is never crashed; this includes a plane drawn     *)
(* with fuel 100 and granted landing in its entry frame.                   *)
(***************************************************************************)
C12_LandsAfterEightyFrames ==
    \A i \in DOMAIN airplanes :
        (history[i].granted > 0 /\ halts[i].at = 0) =>
            /\ airplanes[i].landed <=> frameNumber >= history[i].granted + 80
            /\ ~airplanes[i].crashed

C12_Witness ==
    \E i \in DOMAIN prev :
        /\ history[i].fuel = 100
        /\ history[i].granted = history[i].entered
        /\ halts[i].at = 0
        /\ ~prev[i].landed /\ airplanes[i].landed
        /\ frameNumber = history[i].granted + 80

(***************************************************************************)
(* C13: under the control policy, in both programs, no landing is halted:  *)
(* a plane with landing = true at the end of a frame is landing or landed  *)
(* at the end of the next, its altitude falls by one per frame, and it     *)
(* touches down exactly when the altitude reaches 0, that is (altitude at  *)
(* frame f) frames after f.                                                *)
(***************************************************************************)
C13_ControlNeverHalts ==
    control =>
        /\ Halted = {}
        /\ \A i \in DOMAIN prev :
              prev[i].landing =>
                  /\ airplanes[i].landing \/ airplanes[i].landed
                  /\ ~prev[i].landed =>
                        /\ airplanes[i].altitude = prev[i].altitude - 1
                        /\ airplanes[i].landed <=> airplanes[i].altitude = 0
        /\ \A i \in DOMAIN airplanes :
              (history[i].granted > 0 /\ ~airplanes[i].landed) =>
                  /\ airplanes[i].landing
                  /\ frameNumber + airplanes[i].altitude
                        = history[i].granted + 80

C13_Witness ==
    /\ control
    /\ \E p \in DOMAIN prev, q \in DOMAIN scanned :
          /\ prev[p].landing /\ airplanes[p].landing
          /\ scanned[p].fuel >= 81 + scanned[p].altitude
          /\ Waiting(q)
          /\ scanned[q].fuel >= 80
          /\ scanned[q].fuel < scanned[p].fuel

(***************************************************************************)
(* C14: a trial starts at frame 0, every step of run() either is a tick    *)
(* that adds exactly 1 to frameNumber or, at frame 10000 and only there,   *)
(* is the single recordCrashes call that ends it; the frame counter never  *)
(* passes 10000, so a trial ends after exactly 10000 ticks and one         *)
(* recording, never earlier and never later.                               *)
(***************************************************************************)
C14_RunsExactlyToHorizon ==
    /\ frameNumber = 0
    /\ [](/\ frameNumber \in 0..10000
          /\ pc = "running" => recorded = runNumber - 1
          /\ pc = "done" => (frameNumber = 10000 /\ recorded = runNumber))
    /\ [][\/ /\ frameNumber < 10000
             /\ frameNumber' = frameNumber + 1
             /\ pc' = "running" /\ recorded' = recorded
          \/ /\ frameNumber = 10000
             /\ frameNumber' = frameNumber
             /\ pc = "running" /\ pc' = "done"
             /\ recorded' = recorded + 1]_vars

C14_Witness ==
    /\ pc = "done"
    /\ frameNumber = 10000
    /\ recorded = runNumber
    /\ \E i \in DOMAIN airplanes : airplanes[i].crashed
    /\ \E i \in DOMAIN airplanes : airplanes[i].landed

(***************************************************************************)
(* C15.  In both driver programs the tally is printed exactly once, and    *)
(* only after every trial the driver constructs (1000 in part_000,         *)
(* maxRuns in airport.js) has recorded its crashes: never more than one    *)
(* print, no print while fewer than all trials are recorded, and one print *)
(* made by the time the driver loop has exited.                            *)
(***************************************************************************)
C15_PrintedOnceAfterLastTrial ==
    /\ printed <= 1
    /\ printed >= 1 => recorded = TotalRuns
    /\ pc = "exit" => printed = 1

(***************************************************************************)
(* C16.  When a trial finishes, the counter of its group (controls when    *)
(* control is true, tests otherwise) grows by exactly the number of        *)
(* crashed airplanes of its collection and the other counter keeps its     *)
(* value; at every moment, and so after all trials, each counter is the    *)
(* sum of the crash counts of the finished trials of its group.            *)
(***************************************************************************)
C16_CrashAccounting ==
    /\ [](crashTally = sums)
    /\ [][LET n == Cardinality({i \in DOMAIN airplanes :
                                    airplanes[i].crashed})
          IN  IF pc = "running" /\ pc' = "done"
              THEN IF control
                   THEN /\ crashTally'.controls = crashTally.controls + n
                        /\ crashTally'.tests = crashTally.tests
                   ELSE /\ crashTally'.tests = crashTally.tests + n
                        /\ crashTally'.controls = crashTally.controls
              ELSE crashTally' = crashTally]_vars

C16_Witness ==
    /\ pc = "exit"
    /\ recorded = TotalRuns
    /\ crashTally.controls > 0
    /\ crashTally.tests > 0

(***************************************************************************)
(* C17.  As stated: a plane that entered with fuel 100, was granted        *)
(* landing in its entry frame and was never halted has exactly 20 liters   *)
(* once it has touched down.                                               *)
(***************************************************************************)
C17_Original ==
    \A i \in DOMAIN airplanes :
        (/\ history[i].fuel = 100
         /\ history[i].granted = history[i].entered
         /\ halts[i].at = 0
         /\ airplanes[i].landed) => airplanes[i].fuel = 20

(***************************************************************************)
(* C17 amended: the entry frame burns one liter before the grant, so a     *)
(* plane granted landing in its entry frame and never halted touches down  *)
(* with its drawn fuel minus 81, and keeps that amount afterwards: 19      *)
(* liters for a plane that entered with 100.                               *)
(***************************************************************************)
C17_Amended ==
    \A i \in DOMAIN airplanes :
        (/\ history[i].granted = history[i].entered
         /\ halts[i].at = 0
         /\ airplanes[i].landed) =>
            /\ airplanes[i].fuel = history[i].fuel - 81
            /\ history[i].fuel = 100 => airplanes[i].fuel = 19

C17_Witness ==
    \E i \in DOMAIN airplanes :
        /\ history[i].fuel = 100
        /\ history[i].granted = history[i].entered
        /\ halts[i].at = 0
        /\ airplanes[i].landed
        /\ airplanes[i].fuel = 19
        /\ frameNumber > history[i].entered + 80

(***************************************************************************)
(* C18.  At the end of every frame, in both programs, an airplane that is  *)
(* descending (landing and not landed) has fuel >= altitude >= 1, and a    *)
(* landed airplane has fuel >= 0: no plane runs dry during its descent.    *)
(***************************************************************************)
C18_NeverDryWhileDescending ==
    \A i \in DOMAIN airplanes :
        /\ (airplanes[i].landing /\ ~airplanes[i].landed) =>
               /\ airplanes[i].fuel >= airplanes[i].altitude
               /\ airplanes[i].altitude >= 1
        /\ airplanes[i].landed => airplanes[i].fuel >= 0

\* a plane admitted with just enough fuel: it touches down with none left
C18_Witness ==
    \E i \in DOMAIN prev :
        /\ prev[i].landing /\ ~prev[i].landed
        /\ prev[i].fuel = prev[i].altitude
        /\ airplanes[i].landed
        /\ airplanes[i].fuel = 0

(***************************************************************************)
(* C19.  In every reachable state of both programs every airplane has      *)
(* fuel >= 0, a crashed airplane has fuel exactly 0, an airplane that has  *)
(* not landed has an altitude in 1..80 and a landed airplane has altitude  *)
(* exactly 0.                                                              *)
(***************************************************************************)
C19_FuelAndAltitudeRanges ==
    \A i \in DOMAIN airplanes :
        /\ airplanes[i].fuel >= 0
        /\ airplanes[i].crashed => airplanes[i].fuel = 0
        /\ ~airplanes[i].landed => airplanes[i].altitude \in 1..80
        /\ airplanes[i].landed => airplanes[i].altitude = 0

\* a crashed plane still at altitude 80 and a plane landed on its last liter
C19_Witness ==
    \E i, j \in DOMAIN airplanes :
        /\ airplanes[i].crashed /\ airplanes[i].fuel = 0
        /\ airplanes[i].altitude = 80
        /\ airplanes[j].landed /\ airplanes[j].fuel = 0
        /\ airplanes[j].altitude = 0

(***************************************************************************)
(* C20.  Every airplane is landed or crashed within F frames of entering,  *)
(* F its drawn fuel and the entry frame counted as the first: an airplane  *)
(* that is neither landed nor crashed at the end of a frame has burnt one  *)
(* liter in each frame since its entry and has at least one left, so it is *)
(* younger than F frames, whether it waits, descends or was halted.        *)
(***************************************************************************)
C20_TerminalWithinFuelFrames ==
    \A i \in DOMAIN airplanes :
        LET age == frameNumber - history[i].entered + 1
        IN  /\ (~airplanes[i].landed /\ ~airplanes[i].crashed) =>
                   /\ airplanes[i].fuel = history[i].fuel - age
                   /\ airplanes[i].fuel >= 1
            /\ age >= history[i].fuel =>
                   airplanes[i].landed \/ airplanes[i].crashed

\* in one frame a halted and re-admitted plane touches down and a plane
\* that never obtained landing crashes, in the F-th frame of its stay
C20_Witness ==
    \E p, r \in DOMAIN prev :
        /\ halts[p].at > 0
        /\ ~prev[p].landed /\ airplanes[p].landed
        /\ history[r].granted = 0
        /\ ~prev[r].crashed /\ airplanes[r].crashed
        /\ frameNumber - history[r].entered + 1 = history[r].fuel

=============================================================================
